---- MODULE Spec2Model ----
(***************************************************************************)
(* Model of app.py: the return/metrics pipeline of the stock performance   *)
(* dashboard (calculate_returns, calculate_metrics, the per-frequency      *)
(* comprehensions and the Streamlit views).                                *)
(*                                                                         *)
(* Numbers.  The script computes in IEEE doubles; the model computes in    *)
(* exact arithmetic over an extended value domain:                         *)
(*   [k |-> "num",  n, d]   the rational n/d (d > 0, lowest terms)         *)
(*   [k |-> "sqrt", n, d]   the root sgn(n) * sqrt(|n| / d), n # 0, which   *)
(*                          the standard deviations and their ratios are   *)
(*   [k |-> "inf",  n, d]   +inf (n = 1) or -inf (n = -1)                  *)
(*   [k |-> "nan",  n, d]   NaN                                            *)
(* Timestamps are counted in minutes; a day is MinutesPerDay minutes and a *)
(* month is DaysPerMonth days.                                             *)
(***************************************************************************)
EXTENDS Integers, Sequences, FiniteSets

(* ------------------------------ bounds --------------------------------- *)
MaxPrice == 2
NumDays == 5
MaxRows == 2
MaxDeviations == 1
DaysPerMonth == 2
MinutesPerDay == 2
FnMaxPrice == 3
FnMaxRows == 3
MaxArgLen == 3

(* ------------------------- program constants --------------------------- *)
TradingDays == 252
VarPercentile == 5

stock_symbols == <<"ITC.NS", "TCS.NS", "WIPRO.NS">>
benchmark_symbol == "^NSEI"
Symbols == {stock_symbols[i] : i \in 1..Len(stock_symbols)}
Frequencies == {"Daily", "Monthly", "Minute"}

(* ------------------------- extended numbers ---------------------------- *)
NaN == [k |-> "nan", n |-> 0, d |-> 1]
PosInf == [k |-> "inf", n |-> 1, d |-> 1]
NegInf == [k |-> "inf", n |-> -1, d |-> 1]

Abs(x) == IF x < 0 THEN -x ELSE x
Sgn(x) == IF x < 0 THEN -1 ELSE IF x > 0 THEN 1 ELSE 0

RECURSIVE GCD(_, _)
GCD(a, b) == IF b = 0 THEN a ELSE GCD(b, a % b)

Rat(n, d) ==
    LET g == GCD(Abs(n), Abs(d))
        s == IF d < 0 THEN -1 ELSE 1
    IN  [k |-> "num", n |-> s * (n \div g), d |-> s * (d \div g)]

Num(i) == [k |-> "num", n |-> i, d |-> 1]
Zero == Num(0)
One == Num(1)

IsNaN(x) == x.k = "nan"
IsNum(x) == x.k = "num"
IsInf(x) == x.k = "inf"
IsZero(x) == x.k \in {"num", "sqrt"} /\ x.n = 0

(* IEEE addition, subtraction, multiplication and division on numbers,     *)
(* infinities and NaN.                                                     *)
Neg(x) == IF IsNaN(x) THEN NaN ELSE [x EXCEPT !.n = -x.n]

Add(x, y) ==
    IF IsNaN(x) \/ IsNaN(y) THEN NaN
    ELSE IF IsInf(x) /\ IsInf(y) THEN (IF x.n = y.n THEN x ELSE NaN)
    ELSE IF IsInf(x) THEN x
    ELSE IF IsInf(y) THEN y
    ELSE LET g == GCD(x.d, y.d)
         IN  Rat(x.n * (y.d \div g) + y.n * (x.d \div g), (x.d \div g) * y.d)

Sub(x, y) == Add(x, Neg(y))

Mul(x, y) ==
    IF IsNaN(x) \/ IsNaN(y) THEN NaN
    ELSE IF IsInf(x) \/ IsInf(y)
         THEN (IF x.n = 0 \/ y.n = 0 THEN NaN
               ELSE IF Sgn(x.n) * Sgn(y.n) > 0 THEN PosInf ELSE NegInf)
    ELSE LET a == Rat(x.n, y.d)
             b == Rat(y.n, x.d)
         IN  Rat(a.n * b.n, a.d * b.d)

Div(x, y) ==
    IF IsNaN(x) \/ IsNaN(y) THEN NaN
    ELSE IF IsInf(y) THEN (IF IsInf(x) THEN NaN ELSE Zero)
    ELSE IF IsInf(x) THEN (IF Sgn(x.n) * Sgn(y.n) >= 0 THEN PosInf ELSE NegInf)
    ELSE IF y.n = 0
         THEN (IF x.n = 0 THEN NaN ELSE IF x.n > 0 THEN PosInf ELSE NegInf)
    ELSE Mul(x, Rat(y.d, y.n))

(* x < y as the floating comparison: False whenever an operand is NaN.     *)
Less(x, y) ==
    /\ ~IsNaN(x) /\ ~IsNaN(y)
    /\ IF IsInf(x) THEN x.n < 0 /\ ~(IsInf(y) /\ y.n < 0)
       ELSE IF IsInf(y) THEN y.n > 0
       ELSE x.n * y.d < y.n * x.d

Leq(x, y) == ~IsNaN(x) /\ ~IsNaN(y) /\ ~Less(y, x)

(* sqrt of a non-negative rational (NaN stays NaN); sqrt(0) is the number 0 *)
Sqrt(x) ==
    IF ~IsNum(x) \/ x.n < 0 THEN NaN
    ELSE IF x.n = 0 THEN Zero
    ELSE [k |-> "sqrt", n |-> x.n, d |-> x.d]

(* root * sqrt(c) for an integer c > 0 *)
MulSqrt(r, c) ==
    IF IsNaN(r) THEN NaN
    ELSE IF IsZero(r) THEN Zero
    ELSE LET q == Rat(r.n * c, r.d) IN [k |-> "sqrt", n |-> q.n, d |-> q.d]

(* number / root: m / sqrt(v) = sgn(m) * sqrt(m^2 / v) *)
DivBySqrt(m, r) ==
    IF IsNaN(m) \/ IsNaN(r) THEN NaN
    ELSE IF IsZero(r)
         THEN (IF m.n = 0 THEN NaN ELSE IF m.n > 0 THEN PosInf ELSE NegInf)
    ELSE IF m.n = 0 THEN Zero
    ELSE LET q == Div(Mul(m, m), [k |-> "num", n |-> r.n, d |-> r.d])
         IN  [k |-> "sqrt", n |-> Sgn(m.n) * q.n, d |-> q.d]

(* ------------------------------ series --------------------------------- *)
(* A pandas Series: a timestamp index and the values stored against it.    *)
MkSeries(idx, vals) == [index |-> idx, values |-> vals]

HasNaN(vs) == \E i \in 1..Len(vs) : IsNaN(vs[i])
SkipNa(vs) == SelectSeq(vs, LAMBDA x : ~IsNaN(x))

RECURSIVE SumSeq(_)
SumSeq(vs) == IF Len(vs) = 0 THEN Zero ELSE Add(Head(vs), SumSeq(Tail(vs)))

(* Series.mean(): NaN entries are skipped; an empty selection gives NaN.   *)
PdMean(vs) ==
    LET c == SkipNa(vs)
    IN  IF Len(c) = 0 THEN NaN ELSE Div(SumSeq(c), Num(Len(c)))

(* sum over i of (x[i] - mx) * (y[i] - my), x and y of one length          *)
CrossDev(x, y) ==
    LET mx == Div(SumSeq(x), Num(Len(x)))
        my == Div(SumSeq(y), Num(Len(y)))
    IN  SumSeq([i \in 1..Len(x) |-> Mul(Sub(x[i], mx), Sub(y[i], my))])

(* Series.var(ddof=1) / Series.std(): skip NaN, NaN when fewer than two    *)
(* observations are left.                                                  *)
PdVar(vs) ==
    LET c == SkipNa(vs)
    IN  IF Len(c) <= 1 THEN NaN ELSE Div(CrossDev(c, c), Num(Len(c) - 1))

PdStd(vs) == Sqrt(PdVar(vs))

(* One entry of np.cov(x, y): NaN is not skipped; one observation divides  *)
(* a zero sum by zero degrees of freedom.                                  *)
NpCov(x, y) ==
    IF HasNaN(x) \/ HasNaN(y) THEN NaN
    ELSE Div(CrossDev(x, y), Num(Len(x) - 1))

(* np.corrcoef(x, y)[0, 1] ** 2: the covariance divided by both standard   *)
(* deviations, squared: (c01 / c00) * (c01 / c11).                         *)
NpCorrSquared(x, y) ==
    LET c01 == NpCov(x, y)
    IN  Mul(Div(c01, NpCov(x, x)), Div(c01, NpCov(y, y)))

RECURSIVE MinIndex(_, _, _)
MinIndex(vs, i, best) ==
    IF i > Len(vs) THEN best
    ELSE MinIndex(vs, i + 1, IF Less(vs[i], vs[best]) THEN i ELSE best)

RemoveAt(vs, i) == SubSeq(vs, 1, i - 1) \o SubSeq(vs, i + 1, Len(vs))

RECURSIVE SortAsc(_)
SortAsc(vs) ==
    IF Len(vs) <= 1 THEN vs
    ELSE LET m == MinIndex(vs, 2, 1)
         IN  <<vs[m]>> \o SortAsc(RemoveAt(vs, m))

(* np.percentile(a, q), linear interpolation between the two order         *)
(* statistics around the rank (n - 1) * q / 100; NaN if a holds a NaN.     *)
NpPercentile(vs, q) ==
    IF HasNaN(vs) THEN NaN
    ELSE LET a == SortAsc(vs)
             n == Len(a)
             lo == ((n - 1) * q) \div 100
             g == Sub(Rat((n - 1) * q, 100), Num(lo))
             hi == IF lo + 2 <= n THEN lo + 2 ELSE n
         IN  Add(a[lo + 1], Mul(g, Sub(a[hi], a[lo + 1])))

(* Series.cumprod() / Series.cummax(): a NaN entry stays NaN and is        *)
(* skipped by the accumulation.                                            *)
RECURSIVE CumProd(_, _)
CumProd(vs, acc) ==
    IF Len(vs) = 0 THEN <<>>
    ELSE IF IsNaN(Head(vs)) THEN <<NaN>> \o CumProd(Tail(vs), acc)
    ELSE LET a == IF IsNaN(acc) THEN Head(vs) ELSE Mul(acc, Head(vs))
         IN  <<a>> \o CumProd(Tail(vs), a)

RECURSIVE CumMax(_, _)
CumMax(vs, acc) ==
    IF Len(vs) = 0 THEN <<>>
    ELSE IF IsNaN(Head(vs)) THEN <<NaN>> \o CumMax(Tail(vs), acc)
    ELSE LET a == IF IsNaN(acc) \/ Less(acc, Head(vs)) THEN Head(vs) ELSE acc
         IN  <<a>> \o CumMax(Tail(vs), a)

(* Series.min(): skip NaN; NaN when nothing is left. *)
PdMin(vs) ==
    LET c == SkipNa(vs)
    IN  IF Len(c) = 0 THEN NaN ELSE c[MinIndex(c, 2, 1)]

(* --------------------------- calculate_returns ------------------------- *)
(* The sorted sequence of the members of a set of integers. *)
RECURSIVE SeqOfSet(_)
SeqOfSet(S) ==
    IF S = {} THEN <<>>
    ELSE LET m == CHOOSE x \in S : \A y \in S : x <= y
         IN  <<m>> \o SeqOfSet(S \ {m})

DayOf(t) == t \div MinutesPerDay
MonthOf(t) == DayOf(t) \div DaysPerMonth
MonthEnd(m) == ((m + 1) * DaysPerMonth - 1) * MinutesPerDay

(* data.resample(freq): the labels of the periods from the first to the    *)
(* last timestamp: every day ('1d'), every minute ('T'), every month end   *)
(* ('M').                                                                  *)
ResampleIndex(idx, freq) ==
    IF Len(idx) = 0 THEN <<>>
    ELSE LET first == idx[1]
             last == idx[Len(idx)]
         IN  CASE freq = "1d" ->
                    [i \in 1..(DayOf(last) - DayOf(first) + 1) |->
                        (DayOf(first) + i - 1) * MinutesPerDay]
               [] freq = "T" -> [i \in 1..(last - first + 1) |-> first + i - 1]
               [] freq = "M" ->
                    [i \in 1..(MonthOf(last) - MonthOf(first) + 1) |->
                        MonthEnd(MonthOf(first) + i - 1)]

(* .ffill() of the resampler: each period takes the value stored against   *)
(* the last timestamp at or before its label.                              *)
ReindexFfill(data, labels) ==
    [i \in 1..Len(labels) |->
        LET at == {j \in 1..Len(data.index) : data.index[j] <= labels[i]}
        IN  IF at = {} THEN NaN
            ELSE data.values[CHOOSE j \in at : \A j2 \in at : j2 <= j]]

Resample(data, freq) ==
    LET labels == ResampleIndex(data.index, freq)
    IN  MkSeries(labels, ReindexFfill(data, labels))

(* Series.ffill(): a NaN takes the last value before it, a leading NaN stays *)
RECURSIVE Pad(_, _)
Pad(vs, last) ==
    IF Len(vs) = 0 THEN <<>>
    ELSE LET v == IF IsNaN(Head(vs)) THEN last ELSE Head(vs)
         IN  <<v>> \o Pad(Tail(vs), v)

(* Series.pct_change(): pad, then v[t] / v[t-1] - 1; the first entry has   *)
(* no predecessor and is NaN.                                              *)
PctChange(vs) ==
    LET p == Pad(vs, NaN)
    IN  [i \in 1..Len(p) |-> IF i = 1 THEN NaN ELSE Sub(Div(p[i], p[i - 1]), One)]

(* calculate_returns with the rows that hold no price dropped first. *)
calculate_returns_dropna(d, freq) ==
    LET keep == {i \in 1..Len(d.values) : ~IsNaN(d.values[i])}
        kept == SeqOfSet(keep)
        r == Resample(MkSeries([i \in 1..Len(kept) |-> d.index[kept[i]]],
                               [i \in 1..Len(kept) |-> d.values[kept[i]]]), freq)
    IN  MkSeries(r.index, PctChange(r.values))

calculate_returns(data, freq) ==
    LET r == Resample(data, freq)
    IN  MkSeries(r.index, PctChange(r.values))

(* --------------------------- calculate_metrics ------------------------- *)
MetricNames == {"Alpha", "Volatility", "Sharpe Ratio", "Max Drawdown",
                "R-Squared", "Downside Deviation", "VaR (95%)"}

Raised(e) == [status |-> "raised", error |-> e, value |-> <<>>]
Returned(v) == [status |-> "returned", error |-> "", value |-> v]

(* The drawdown of lines 33-36. *)
MaxDrawdownOf(vs) ==
    LET cumulative_returns == CumProd([i \in 1..Len(vs) |-> Add(One, vs[i])], NaN)
        peak == CumMax(cumulative_returns, NaN)
        drawdown == [i \in 1..Len(vs) |->
                        Div(Sub(cumulative_returns[i], peak[i]), peak[i])]
    IN  PdMin(drawdown)

BetaOf(r, b) == Div(NpCov(r, b), NpCov(b, b))

(* lines 22-56 on two value sequences of one length. *)
MetricsDict(r, b) ==
    LET beta == BetaOf(r, b)
        alpha == Sub(PdMean(r), Mul(beta, PdMean(b)))
        annualized_volatility == MulSqrt(PdStd(r), TradingDays)
        sharpe_ratio == DivBySqrt(PdMean(r), PdStd(r))
        max_drawdown == MaxDrawdownOf(r)
        r_squared == NpCorrSquared(r, b)
        downside_returns == SelectSeq(r, LAMBDA x : Less(x, Zero))
        downside_deviation == PdStd(downside_returns)
        var_95 == NpPercentile(r, VarPercentile)
    IN  [m \in MetricNames |->
            CASE m = "Alpha" -> alpha
              [] m = "Volatility" -> annualized_volatility
              [] m = "Sharpe Ratio" -> sharpe_ratio
              [] m = "Max Drawdown" -> max_drawdown
              [] m = "R-Squared" -> r_squared
              [] m = "Downside Deviation" -> downside_deviation
              [] m = "VaR (95%)" -> var_95]

(* calculate_metrics pairing the two series up to the shorter one. *)
calculate_metrics_truncating(returns, benchmark_returns) ==
    LET n == IF Len(returns.values) < Len(benchmark_returns.values)
             THEN Len(returns.values) ELSE Len(benchmark_returns.values)
    IN  Returned(MetricsDict(SubSeq(returns.values, 1, n),
                             SubSeq(benchmark_returns.values, 1, n)))

(* np.cov (line 22) stacks the two series and raises ValueError when their *)
(* lengths differ; nothing after it runs.                                  *)
calculate_metrics(returns, benchmark_returns) ==
    IF Len(returns.values) # Len(benchmark_returns.values)
    THEN Raised("ValueError")
    ELSE Returned(MetricsDict(returns.values, benchmark_returns.values))

(* ------------------------------- state --------------------------------- *)
VARIABLES pc, data,
          daily_returns, monthly_returns, minute_returns,
          benchmark_daily_returns, benchmark_monthly_returns,
          benchmark_minute_returns,
          metrics, monthly_metrics, minute_metrics,
          selected_stock, selected_frequency, selected_metrics,
          volatility_data, sharpe_ratios, var_data,
          fn_pc, fn_data, fn_freq, fn_returns, fn_benchmark, fn_result

returns_vars == <<daily_returns, monthly_returns, minute_returns,
                  benchmark_daily_returns, benchmark_monthly_returns,
                  benchmark_minute_returns>>
metrics_vars == <<metrics, monthly_metrics, minute_metrics>>
view_vars == <<selected_stock, selected_frequency, selected_metrics,
               volatility_data, sharpe_ratios, var_data>>
script_vars == <<pc, data, returns_vars, metrics_vars, view_vars>>
fn_vars == <<fn_pc, fn_data, fn_freq, fn_returns, fn_benchmark, fn_result>>
vars == <<script_vars, fn_vars>>

None == <<>>

(* ------------------------------ inputs --------------------------------- *)
(* Indexes of daily price histories: between 1 and rows trading days, each *)
(* stamped at midnight.                                                    *)
DayIndexes(rows) ==
    {[i \in 1..Cardinality(S) |-> SeqOfSet(S)[i] * MinutesPerDay] :
        S \in {T \in SUBSET (0..(NumDays - 1)) :
                  Cardinality(T) >= 1 /\ Cardinality(T) <= rows}}

AllSymbols == Symbols \cup {benchmark_symbol}

(* The cells of a table of len rows, and what a cell may hold besides the  *)
(* reference price 1: a higher price, or NaN in the first row for a symbol *)
(* with no quote on the first day.                                         *)
Cells(len) == AllSymbols \X (1..len)
Deviations(cell) ==
    {Num(p) : p \in 2..MaxPrice} \cup (IF cell[2] = 1 THEN {NaN} ELSE {})

(* The 'Adj Close' columns of the tables of len rows in which at most      *)
(* MaxDeviations cells differ from the reference price.                    *)
ColumnSets(len) ==
    UNION {
        {[symbol \in AllSymbols |->
             [i \in 1..len |-> IF <<symbol, i>> \in D THEN f[<<symbol, i>>] ELSE One]] :
           f \in {g \in [D -> {Num(p) : p \in 2..MaxPrice} \cup {NaN}] :
                     \A cell \in D : g[cell] \in Deviations(cell)}} :
        D \in {E \in SUBSET Cells(len) : Cardinality(E) <= MaxDeviations}}

(* yf.download(...): one table, one index shared by every ticker. *)
Tables ==
    UNION {[index : {idx}, columns : ColumnSets(Len(idx))] :
              idx \in DayIndexes(MaxRows)}

(* data[symbol]['Adj Close'] *)
AdjClose(tbl, symbol) == MkSeries(tbl.index, tbl.columns[symbol])
stock_data == [symbol \in Symbols |-> AdjClose(data, symbol)]
benchmark_data == AdjClose(data, benchmark_symbol)

(* ------------------------------ script --------------------------------- *)
Init ==
    /\ pc = "start"
    /\ data = None
    /\ daily_returns = None /\ monthly_returns = None /\ minute_returns = None
    /\ benchmark_daily_returns = None /\ benchmark_monthly_returns = None
    /\ benchmark_minute_returns = None
    /\ metrics = None /\ monthly_metrics = None /\ minute_metrics = None
    /\ selected_stock = None /\ selected_frequency = None
    /\ selected_metrics = None
    /\ volatility_data = None /\ sharpe_ratios = None /\ var_data = None
    /\ fn_pc = "idle"
    /\ fn_data = None /\ fn_freq = None
    /\ fn_returns = None /\ fn_benchmark = None /\ fn_result = None

(* line 12 *)
Download ==
    /\ pc = "start"
    /\ \E tbl \in Tables : data' = tbl
    /\ pc' = "downloaded"
    /\ UNCHANGED <<returns_vars, metrics_vars, view_vars, fn_vars>>

(* lines 59-69 *)
ComputeReturns ==
    /\ pc = "downloaded"
    /\ daily_returns' = [symbol \in Symbols |-> calculate_returns(stock_data[symbol], "1d")]
    /\ monthly_returns' = [symbol \in Symbols |-> calculate_returns(stock_data[symbol], "M")]
    /\ minute_returns' = [symbol \in Symbols |-> calculate_returns(stock_data[symbol], "T")]
    /\ benchmark_daily_returns' = calculate_returns(benchmark_data, "1d")
    /\ benchmark_monthly_returns' = calculate_returns(benchmark_data, "M")
    /\ benchmark_minute_returns' = calculate_returns(benchmark_data, "T")
    /\ pc' = "returns"
    /\ UNCHANGED <<data, metrics_vars, view_vars, fn_vars>>

(* One dict comprehension of lines 72-74: a call per symbol. *)
MetricsOf(rets, bench) ==
    [symbol \in Symbols |-> calculate_metrics(rets[symbol], bench)]
AnyRaised(calls) == \E symbol \in Symbols : calls[symbol].status = "raised"
ValuesOf(calls) == [symbol \in Symbols |-> calls[symbol].value]

(* lines 72-74: an exception in a comprehension ends the script before the *)
(* dict it was building, and every later one, is assigned.                 *)
ComputeMetrics ==
    /\ pc = "returns"
    /\ \E d \in {MetricsOf(daily_returns, benchmark_daily_returns)},
          m \in {MetricsOf(monthly_returns, benchmark_monthly_returns)},
          t \in {MetricsOf(minute_returns, benchmark_minute_returns)} :
           /\ metrics' = IF AnyRaised(d) THEN metrics ELSE ValuesOf(d)
           /\ monthly_metrics' = IF AnyRaised(d) \/ AnyRaised(m)
                                 THEN monthly_metrics ELSE ValuesOf(m)
           /\ minute_metrics' = IF AnyRaised(d) \/ AnyRaised(m) \/ AnyRaised(t)
                                THEN minute_metrics ELSE ValuesOf(t)
           /\ pc' = IF AnyRaised(d) \/ AnyRaised(m) \/ AnyRaised(t)
                    THEN "aborted" ELSE "metrics"
    /\ UNCHANGED <<data, returns_vars, view_vars, fn_vars>>

(* The dispatch with the Monthly branch reading the daily table. *)
SelectedMetricsDailyForMonthly(stock, frequency) ==
    IF frequency = "Minute" THEN minute_metrics[stock] ELSE metrics[stock]

(* lines 84-92 *)
SelectedMetrics(stock, frequency) ==
    IF frequency = "Daily" THEN metrics[stock]
    ELSE IF frequency = "Monthly" THEN monthly_metrics[stock]
    ELSE minute_metrics[stock]

(* lines 99-104 *)
VolatilityData(frequency) ==
    IF frequency = "Daily"
    THEN [symbol \in Symbols |-> metrics[symbol]["Volatility"]]
    ELSE IF frequency = "Monthly"
    THEN [symbol \in Symbols |-> monthly_metrics[symbol]["Volatility"]]
    ELSE [symbol \in Symbols |-> minute_metrics[symbol]["Volatility"]]

(* line 111 *)
SharpeRatios(selected) == [symbol \in Symbols |-> selected["Sharpe Ratio"]]

(* line 118 *)
VarData(selected) == [symbol \in Symbols |-> selected["VaR (95%)"]]

(* lines 80-120: the two select boxes give the stock and the frequency,    *)
(* and the rest of the script builds the views from them.                  *)
Render ==
    /\ pc = "metrics"
    /\ \E stock \in Symbols, frequency \in Frequencies :
          /\ selected_stock' = stock
          /\ selected_frequency' = frequency
          /\ selected_metrics' = SelectedMetrics(stock, frequency)
          /\ volatility_data' = VolatilityData(frequency)
          /\ sharpe_ratios' = SharpeRatios(SelectedMetrics(stock, frequency))
          /\ var_data' = VarData(SelectedMetrics(stock, frequency))
    /\ pc' = "rendered"
    /\ UNCHANGED <<data, returns_vars, metrics_vars, fn_vars>>

Next == Download \/ ComputeReturns \/ ComputeMetrics \/ Render

Spec == Init /\ [][Next]_vars

(* --------------------- the two functions, called alone ----------------- *)
(* Price histories handed to calculate_returns: positive prices on between *)
(* 1 and FnMaxRows trading days.                                           *)
FnPriceSeries ==
    UNION {[index : {idx}, values : [1..Len(idx) -> {Num(p) : p \in 1..FnMaxPrice}]] :
              idx \in DayIndexes(FnMaxRows)}

FreqRules == {"1d", "M", "T"}

(* Return series handed to calculate_metrics by a caller: returns of -50%, *)
(* 0 and +100%, with or without the leading NaN that pct_change produces.  *)
ArgReturns == {Rat(-1, 2), Zero, One}
ArgSeries ==
    UNION {{MkSeries([i \in 1..len |-> (i - 1) * MinutesPerDay], vs) :
               vs \in {v \in [1..len -> ArgReturns \cup {NaN}] :
                          \A i \in 2..len : ~IsNaN(v[i])}} :
           len \in 1..MaxArgLen}

CallCalculateReturns ==
    /\ fn_pc = "idle"
    /\ \E d \in FnPriceSeries, freq \in FreqRules :
          /\ fn_data' = d
          /\ fn_freq' = freq
          /\ fn_returns' = calculate_returns(d, freq)
    /\ fn_pc' = "returns"
    /\ UNCHANGED <<fn_benchmark, fn_result, script_vars>>

(* calculate_metrics on the series calculate_returns produced, as asset    *)
(* and as benchmark.                                                       *)
CallMetricsSelf ==
    /\ fn_pc = "returns"
    /\ fn_benchmark' = fn_returns
    /\ fn_result' = calculate_metrics(fn_returns, fn_returns)
    /\ fn_pc' = "metrics"
    /\ UNCHANGED <<fn_data, fn_freq, fn_returns, script_vars>>

(* calculate_metrics on two series of the caller's. *)
CallCalculateMetrics ==
    /\ fn_pc = "idle"
    /\ \E r \in ArgSeries, b \in ArgSeries :
          /\ fn_returns' = r
          /\ fn_benchmark' = b
          /\ fn_result' = calculate_metrics(r, b)
    /\ fn_pc' = "metrics"
    /\ UNCHANGED <<fn_data, fn_freq, script_vars>>

NextFn == CallCalculateReturns \/ CallMetricsSelf \/ CallCalculateMetrics

SpecFn == Init /\ [][NextFn]_vars

(* ------------------------------ readings ------------------------------- *)
(* The result store: the table of a frequency, and the return series the   *)
(* script computed for it.                                                 *)
StoredTable(frequency) ==
    CASE frequency = "Daily" -> metrics
      [] frequency = "Monthly" -> monthly_metrics
      [] frequency = "Minute" -> minute_metrics
StoredReturns(frequency) ==
    CASE frequency = "Daily" -> daily_returns
      [] frequency = "Monthly" -> monthly_returns
      [] frequency = "Minute" -> minute_returns
StoredBenchmarkReturns(frequency) ==
    CASE frequency = "Daily" -> benchmark_daily_returns
      [] frequency = "Monthly" -> benchmark_monthly_returns
      [] frequency = "Minute" -> benchmark_minute_returns

IsFloat(x) == x.k \in {"num", "sqrt", "inf", "nan"}
IsMetricsRecord(x) == DOMAIN x = MetricNames /\ \A m \in MetricNames : IsFloat(x[m])
AllEqual(vs) == \A i, j \in 1..Len(vs) : vs[i] = vs[j]

(* The failures of the error taxonomy, read off a pair's return series. *)
InsufficientHistory(rets) == Len(rets.values) < 2
LengthMismatch(rets, bench) == Len(rets.values) # Len(bench.values)
DegenerateVariance(bench) ==
    Len(SkipNa(bench.values)) >= 2 /\ AllEqual(SkipNa(bench.values))
PairFails(symbol, frequency) ==
    \/ InsufficientHistory(StoredReturns(frequency)[symbol])
    \/ LengthMismatch(StoredReturns(frequency)[symbol], StoredBenchmarkReturns(frequency))
    \/ DegenerateVariance(StoredBenchmarkReturns(frequency))

ScriptPastMetrics == pc \in {"metrics", "rendered"}
ScriptPastReturns == pc \in {"returns", "metrics", "rendered", "aborted"}

(* ------------------------------- claims -------------------------------- *)

(* C1: partial-failure isolation. Once the batch over the 3 symbols and 3  *)
(* frequencies is done, the slot of every failing pair (InsufficientHistory, *)
(* LengthMismatch, DegenerateVariance) holds an explicit failure marker,   *)
(* not a metrics record, and the run was not aborted.                      *)
C1_FailingPairsAreMarked ==
    /\ pc # "aborted"
    /\ ScriptPastMetrics =>
          \A frequency \in Frequencies, symbol \in Symbols :
              PairFails(symbol, frequency)
                  => ~IsMetricsRecord(StoredTable(frequency)[symbol])

(* C2: the series calculate_returns produces holds no undefined entry: it  *)
(* has one entry per resampled period after the first, each equal to       *)
(* p[t] / p[t-1] - 1.                                                      *)
C2_ReturnsExcludeFirstPeriod ==
    (fn_pc = "returns") =>
        LET p == Resample(fn_data, fn_freq).values
            r == fn_returns.values
        IN  /\ ~HasNaN(r)
            /\ Len(r) = Len(p) - 1
            /\ \A t \in 1..Len(r) : r[t] = Sub(Div(p[t + 1], p[t]), One)

(* C3: the Sharpe-ratio view and the VaR view list against every symbol s  *)
(* the value stored for (s, selected frequency), whichever stock is        *)
(* selected.                                                               *)
C3_SharpeAndVarViewsProjectStore ==
    (pc = "rendered") =>
        \A symbol \in Symbols :
            /\ sharpe_ratios[symbol]
                  = StoredTable(selected_frequency)[symbol]["Sharpe Ratio"]
            /\ var_data[symbol]
                  = StoredTable(selected_frequency)[symbol]["VaR (95%)"]

(* C4: a call of calculate_metrics on an asset series and a benchmark      *)
(* series of different lengths ends in the length-mismatch failure and     *)
(* produces no metrics record.                                             *)
C4_LengthMismatchRaises ==
    (fn_pc = "metrics" /\ LengthMismatch(fn_returns, fn_benchmark)) =>
        /\ fn_result.status = "raised"
        /\ fn_result.error = "ValueError"
        /\ ~IsMetricsRecord(fn_result.value)

C4_Witness ==
    /\ fn_pc = "metrics"
    /\ Len(fn_returns.values) = 2 /\ Len(fn_benchmark.values) = 3
    /\ fn_result.status = "raised"

(* C5: a call of calculate_metrics with a benchmark series of zero         *)
(* variance ends in a failure and returns no metrics record. Stated for    *)
(* two series free of NaN, so that the variance np.cov computes is itself  *)
(* zero.                                                                   *)
C5_DegenerateVarianceRaises ==
    (/\ fn_pc = "metrics"
     /\ ~HasNaN(fn_returns.values) /\ ~HasNaN(fn_benchmark.values)
     /\ DegenerateVariance(fn_benchmark)) =>
        fn_result.status = "raised"

(* C6: self-benchmark identity. For a price series whose returns are not   *)
(* all equal, calculate_metrics on the series of calculate_returns as both *)
(* asset and benchmark gives beta = 1, Alpha = 0 and R-Squared = 1.        *)
C6_SelfBenchmarkIdentity ==
    (/\ fn_pc = "metrics" /\ fn_data # None
     /\ ~AllEqual(SkipNa(fn_returns.values))) =>
        /\ BetaOf(fn_returns.values, fn_benchmark.values) = One
        /\ fn_result.value["Alpha"] = Zero
        /\ fn_result.value["R-Squared"] = One

(* The cumulative product of 1 + return over the defined returns never     *)
(* falls below an earlier value of itself.                                 *)
NeverFalls(vs) ==
    LET c == SkipNa(CumProd([i \in 1..Len(vs) |-> Add(One, vs[i])], NaN))
    IN  \A i, j \in 1..Len(c) : i < j => ~Less(c[j], c[i])

(* C7: for a return series derived from strictly positive prices, Max      *)
(* Drawdown lies in [-1, 0], and it is 0 exactly when the cumulative       *)
(* series never falls below an earlier value.                              *)
C7_MaxDrawdownInRange ==
    (fn_pc = "metrics" /\ fn_data # None) =>
        LET mdd == fn_result.value["Max Drawdown"]
        IN  /\ Leq(Num(-1), mdd) /\ Leq(mdd, Zero)
            /\ IsZero(mdd) <=> NeverFalls(fn_returns.values)

(* C8: for a constant price series every return is 0, Volatility is 0, Max *)
(* Drawdown is 0 and the Sharpe Ratio field is an explicit undefined-      *)
(* statistic outcome: no float at all, so neither the NaN of 0/0 nor zero. *)
(* Stated for series of three or more periods and for the defined returns, *)
(* where the code's Volatility and Max Drawdown are the claim's.           *)
C8_ConstantSeriesPolicy ==
    (/\ fn_pc = "metrics" /\ fn_data # None
     /\ AllEqual(fn_data.values) /\ Len(fn_returns.values) >= 3) =>
        /\ \A i \in 1..Len(SkipNa(fn_returns.values)) :
              SkipNa(fn_returns.values)[i] = Zero
        /\ IsZero(fn_result.value["Volatility"])
        /\ IsZero(fn_result.value["Max Drawdown"])
        /\ ~IsFloat(fn_result.value["Sharpe Ratio"])

(* C9: view dispatch. The metrics table shows the record stored for        *)
(* (selected stock, selected frequency), the volatility comparison lists   *)
(* against each symbol the Volatility stored for (symbol, selected         *)
(* frequency), and rendering leaves the three metric tables unchanged.     *)
C9_ViewsShowStore ==
    (pc = "rendered") =>
        /\ selected_metrics = StoredTable(selected_frequency)[selected_stock]
        /\ \A symbol \in Symbols :
              volatility_data[symbol]
                  = StoredTable(selected_frequency)[symbol]["Volatility"]

C9_RenderKeepsTables == [][Render => UNCHANGED metrics_vars]_vars

C9_ViewDispatch == []C9_ViewsShowStore /\ C9_RenderKeepsTables

(* A rendered Monthly view of a stock whose monthly record differs from    *)
(* its daily and minute records and from another stock's monthly record.   *)
C9_Witness ==
    /\ pc = "rendered"
    /\ selected_frequency = "Monthly"
    /\ selected_metrics = monthly_metrics[selected_stock]
    /\ selected_metrics # metrics[selected_stock]
    /\ selected_metrics # minute_metrics[selected_stock]
    /\ \E symbol \in Symbols :
          /\ monthly_metrics[symbol] # selected_metrics
          /\ volatility_data[symbol] # volatility_data[selected_stock]

(* C10: for every symbol and frequency the asset return series and the     *)
(* benchmark return series handed to calculate_metrics carry the same      *)
(* timestamps in the same order, hence the same length, and no call of the *)
(* pipeline ends in the length mismatch.                                   *)
C10_PipelineAligned ==
    /\ pc # "aborted"
    /\ ScriptPastReturns =>
          \A frequency \in Frequencies, symbol \in Symbols :
              /\ StoredReturns(frequency)[symbol].index
                    = StoredBenchmarkReturns(frequency).index
              /\ ~LengthMismatch(StoredReturns(frequency)[symbol],
                                 StoredBenchmarkReturns(frequency))

(* The metrics were computed from a table in which a stock has no quote on *)
(* the first day while the benchmark has one, over at least two periods.   *)
C10_Witness ==
    /\ pc = "metrics"
    /\ Len(data.index) >= 2
    /\ ~IsNaN(data.columns[benchmark_symbol][1])
    /\ \E symbol \in Symbols :
          /\ IsNaN(data.columns[symbol][1])
          /\ Len(daily_returns[symbol].values) = Len(benchmark_daily_returns.values)
          /\ Len(daily_returns[symbol].values) >= 2

====
